---- MODULE Spec2Model ----
(***************************************************************************)
(* Model of the phenix-db core: the Entity tier state machine and its      *)
(* AccessStatistics (core/entity.rs) and the probabilistic Edge            *)
(* (core/edges.rs).                                                        *)
(*                                                                         *)
(* Representation of the numeric types                                     *)
(*  - Timestamps are u64 milliseconds in the code.  The model's clock      *)
(*    counts units of TICK_MS = 4 ms, so that 90 days fits a 32-bit        *)
(*    integer; every clock reading of the model is a multiple of 4 ms.     *)
(*    A power-of-two unit commutes with the u64 -> f32 conversion.         *)
(*  - `(now - last) as f32` rounds to 24 significant bits, ties to even    *)
(*    (AsF32).                                                             *)
(*  - access_frequency (f32, accesses per hour) is held in tenths.         *)
(*  - weight, probability and the other f32 arguments of Edge are held as  *)
(*    records: a finite value in thousandths, NaN, or +/- infinity.        *)
(***************************************************************************)
EXTENDS Integers, Sequences, FiniteSets, TLC

VARIABLES
    now,      \* the system clock, in ticks since the process started
    entity,   \* the Entity under test
    nextId,   \* the identifier source: the next fresh EntityId
    edge,     \* the Edge under test
    threads,  \* per thread: position inside Edge::record_access and its clock reading
    issued,   \* number of Edge::record_access calls entered so far
    objects,  \* the Edge and Entity values alive side by side: originals, clones, decoded copies
    atomics,  \* the AtomicU64 cells allocated so far; a cell's address is its index
    call      \* the last call made: its name, argument, result and the state before it

vars == <<now, entity, nextId, edge, threads, issued, objects, atomics, call>>

-----------------------------------------------------------------------------
(* Bounds of the model *)

MaxAccesses == 2       \* Entity::record_access calls explored
MaxEntityCoIds == 1    \* fresh ids fed to record_co_access in the entity specification
MaxFreshIds == 102     \* fresh ids fed to record_co_access in the co-access specification
MaxEdgeCalls == 2      \* mutating calls on the edge in the edge specification
MaxThreads == 2        \* threads calling Edge::record_access concurrently
MaxConcCalls == 3      \* Edge::record_access calls entered in the concurrent specification
MaxConcClock == 2      \* last clock reading of the concurrent specification
MaxObjects == 2        \* values alive side by side: an original and its copies
MaxObjectCalls == 2    \* Edge::record_access calls made on those values
MaxObjectClock == 1    \* last clock reading while those values are used
MaxVectorCalls == 3    \* writes to values, update_norm and normalize calls on the vectors
MaxVectors == 2        \* vectors alive side by side

-----------------------------------------------------------------------------
(* Units *)

\* current_timestamp_ms counts milliseconds; one tick of the model's clock is 4 ms.
TICK_MS == 4
MS_PER_HOUR == 3600000
TicksPerHour == MS_PER_HOUR \div TICK_MS
\* access_frequency is held in tenths of an access per hour: 10.0 is 10 * FreqUnit.
FreqUnit == 10
\* co_access_entities keeps at most this many ids.
HISTORY_MAX == 100

\* The clock readings the entity specification moves through (ticks): around
\* 24 h (21,600,000 ticks) and 168 h (151,200,000 ticks).
EntityClock ==
    { 0, 1, 21599998, 21599999, 21600000, 151199991, 151199992, 151200000 }

\* Values written to the public field access_frequency (tenths): 0.0, 0.1, 0.9,
\* 1.0, 9.9, 10.0, 99.9, 100.0.
FrequencyInputs == { 0, 1, 9, 10, 99, 100, 999, 1000 }

BoolStr(b) == IF b THEN "true" ELSE "false"

\* Option<T>: None, or Some(x).
None == << >>
Some(x) == << x >>

-----------------------------------------------------------------------------
(* u64 -> f32 *)

\* The spacing of f32 values at n: 1 below 2^24, doubling with every further bit.
RECURSIVE Ulp(_)
Ulp(n) == IF n < 16777216 THEN 1 ELSE 2 * Ulp(n \div 2)

\* `n as f32` for a u64 n: the nearest value with 24 significant bits, ties to even.
AsF32(n) ==
    LET u == Ulp(n)
        q == n \div u
        r == n % u
    IN  IF 2 * r < u THEN q * u
        ELSE IF 2 * r > u THEN (q + 1) * u
        ELSE IF q % 2 = 0 THEN q * u
        ELSE (q + 1) * u

-----------------------------------------------------------------------------
(* AccessStatistics *)

AccessStatistics_new(t) ==
    [ total_accesses     |-> 0,
      last_access        |-> t,
      access_frequency   |-> 0,
      co_access_entities |-> << >> ]

\* The f32 quotient (now - last_access) as f32 / 3,600,000.0 is held as its
\* numerator in ticks: h hours is h * TicksPerHour.  Dividing by the exactly
\* representable 3,600,000.0 is monotone, and every threshold it is compared
\* with (24, 168, 2160 hours) has an f32 numerator, so the comparison of the
\* quotient with h agrees with the comparison of the numerator with
\* h * TicksPerHour.
hours_since_last_access(s, t) == AsF32(t - s.last_access)

\* record_access counting the access only when time has passed.
AccessStatistics_record_access_counting_elapsed(s, t) ==
    LET hours_elapsed == AsF32(t - s.last_access)
        instant_frequency == (FreqUnit * TicksPerHour) \div hours_elapsed
    IN  [ s EXCEPT !.total_accesses = IF hours_elapsed > 0 THEN @ + 1 ELSE @,
                   !.last_access = t,
                   !.access_frequency =
                       IF hours_elapsed > 0
                       THEN (9 * @ + instant_frequency) \div 10
                       ELSE @ ]

\* record_access taking a zero elapsed time for one tick.
AccessStatistics_record_access_min_tick(s, t) ==
    LET elapsed == AsF32(t - s.last_access)
        hours_elapsed == IF elapsed > 0 THEN elapsed ELSE 1
        instant_frequency == (FreqUnit * TicksPerHour) \div hours_elapsed
    IN  [ s EXCEPT !.total_accesses = @ + 1,
                   !.last_access = t,
                   !.access_frequency = (9 * @ + instant_frequency) \div 10 ]

\* 0.9 * f + 0.1 * (1.0 / hours_elapsed), in tenths, when hours_elapsed > 0.
AccessStatistics_record_access(s, t) ==
    LET hours_elapsed == AsF32(t - s.last_access)
        instant_frequency == (FreqUnit * TicksPerHour) \div hours_elapsed
    IN  [ s EXCEPT !.total_accesses = @ + 1,
                   !.last_access = t,
                   !.access_frequency =
                       IF hours_elapsed > 0
                       THEN (9 * @ + instant_frequency) \div 10
                       ELSE @ ]

Contains(seq, x) == \E i \in 1..Len(seq) : seq[i] = x

\* record_co_access evicting the newest id instead of the oldest.
record_co_access_evicting_newest(s, entity_id) ==
    IF ~Contains(s.co_access_entities, entity_id)
    THEN LET pushed == Append(s.co_access_entities, entity_id)
         IN  [ s EXCEPT !.co_access_entities =
                            IF Len(pushed) > HISTORY_MAX
                            THEN SubSeq(pushed, 1, Len(pushed) - 1)
                            ELSE pushed ]
    ELSE s

\* record_co_access moving an id that is already held to the newest position.
record_co_access_moving_to_newest(s, entity_id) ==
    LET held   == s.co_access_entities
        others == SelectSeq(held, LAMBDA x : x # entity_id)
        pushed == Append(others, entity_id)
    IN  [ s EXCEPT !.co_access_entities =
                       IF Len(pushed) > HISTORY_MAX THEN Tail(pushed) ELSE pushed ]

record_co_access(s, entity_id) ==
    IF ~Contains(s.co_access_entities, entity_id)
    THEN LET pushed == Append(s.co_access_entities, entity_id)
         IN  [ s EXCEPT !.co_access_entities =
                            IF Len(pushed) > HISTORY_MAX THEN Tail(pushed) ELSE pushed ]
    ELSE s

-----------------------------------------------------------------------------
(* Entity *)

\* Entity::new taking updated_at from the second clock reading.
Entity_new_second_reading(id, vector, metadata, edges, t, t2) ==
    [ id                   |-> id,
      vector               |-> vector,
      metadata             |-> metadata,
      edges                |-> edges,
      created_at           |-> t,
      updated_at           |-> t2,
      version              |-> 1,
      tier                 |-> "Hot",
      polynomial_embedding |-> None,
      access_statistics    |-> AccessStatistics_new(t2),
      compression_metadata |-> None ]

\* created_at and updated_at are one clock reading t; AccessStatistics::new
\* takes its own reading t2 afterwards.
Entity_new(id, vector, metadata, edges, t, t2) ==
    [ id                   |-> id,
      vector               |-> vector,
      metadata             |-> metadata,
      edges                |-> edges,
      created_at           |-> t,
      updated_at           |-> t,
      version              |-> 1,
      tier                 |-> "Hot",
      polynomial_embedding |-> None,
      access_statistics    |-> AccessStatistics_new(t2),
      compression_metadata |-> None ]

\* Entity_record_access applying the promotion itself once the threshold is met.
Entity_record_access_promoting(e, t, t2) ==
    LET r == [ e EXCEPT !.access_statistics = AccessStatistics_record_access(@, t),
                        !.updated_at = t2 ]
    IN  IF r.tier = "Cold" /\ r.access_statistics.access_frequency >= 10 * FreqUnit
        THEN [ r EXCEPT !.tier = "Warm" ]
        ELSE r

\* The statistics are updated with the clock reading t taken inside
\* AccessStatistics::record_access; updated_at is a second reading t2.
Entity_record_access(e, t, t2) ==
    [ e EXCEPT !.access_statistics = AccessStatistics_record_access(@, t),
               !.updated_at = t2 ]

\* should_promote with the thresholds excluded (> for >=).
should_promote_strict(e) ==
    CASE e.tier = "Cold" -> e.access_statistics.access_frequency > 10 * FreqUnit
      [] e.tier = "Warm" -> e.access_statistics.access_frequency > 100 * FreqUnit
      [] e.tier = "Hot"  -> FALSE

should_promote(e) ==
    CASE e.tier = "Cold" -> e.access_statistics.access_frequency >= 10 * FreqUnit
      [] e.tier = "Warm" -> e.access_statistics.access_frequency >= 100 * FreqUnit
      [] e.tier = "Hot"  -> FALSE

\* should_demote deciding by the elapsed time alone.
should_demote_by_age_alone(e, t) ==
    LET hours_since_access == hours_since_last_access(e.access_statistics, t)
    IN  CASE e.tier = "Hot"  -> hours_since_access >= 24 * TicksPerHour
          [] e.tier = "Warm" -> hours_since_access >= 168 * TicksPerHour
          [] e.tier = "Cold" -> FALSE

should_demote(e, t) ==
    LET hours_since_access == hours_since_last_access(e.access_statistics, t)
    IN  CASE e.tier = "Hot" ->
                /\ e.access_statistics.access_frequency < 1 * FreqUnit
                /\ hours_since_access >= 24 * TicksPerHour
          [] e.tier = "Warm" ->
                /\ e.access_statistics.access_frequency < FreqUnit \div 10
                /\ hours_since_access >= 168 * TicksPerHour
          [] e.tier = "Cold" -> FALSE

\* promote_tier taking Cold straight to Hot.
promote_tier_skipping(tier) ==
    CASE tier = "Cold" -> "Hot"
      [] tier = "Warm" -> "Hot"
      [] tier = "Hot"  -> "Hot"

promote_tier(tier) ==
    CASE tier = "Cold" -> "Warm"
      [] tier = "Warm" -> "Hot"
      [] tier = "Hot"  -> "Hot"

promote(e, t) == [ e EXCEPT !.tier = promote_tier(@), !.updated_at = t ]

\* demote_tier taking Hot straight to Cold.
demote_tier_skipping(tier) ==
    CASE tier = "Hot"  -> "Cold"
      [] tier = "Warm" -> "Cold"
      [] tier = "Cold" -> "Cold"

demote_tier(tier) ==
    CASE tier = "Hot"  -> "Warm"
      [] tier = "Warm" -> "Cold"
      [] tier = "Cold" -> "Cold"

demote(e, t) == [ e EXCEPT !.tier = demote_tier(@), !.updated_at = t ]

-----------------------------------------------------------------------------
(* Initial state: Entity::new at clock reading 0 *)

TheEntity == Entity_new(0, None, None, None, 0, 0)

InitEntity ==
    /\ now = 0
    /\ entity = TheEntity
    /\ nextId = 1

Called(op, arg, ret, pre) == [ op |-> op, arg |-> arg, ret |-> ret, pre |-> pre ]

-----------------------------------------------------------------------------
(* Operations on the entity *)

EntityFrame == UNCHANGED <<edge, threads, issued, objects, atomics>>

\* The clock advances to a later reading.  In this specification the clock
\* never steps back and last_access is written by record_access alone, so
\* now - last_access never underflows.
TickEntity ==
    /\ \E t \in EntityClock : t > now /\ now' = t
    /\ call' = Called("tick", 0, "none", entity)
    /\ UNCHANGED <<entity, nextId>>
    /\ EntityFrame

\* Entity::record_access; the clock may tick between its two readings.
RecordAccess ==
    /\ entity.access_statistics.total_accesses < MaxAccesses
    /\ \E t2 \in { now } \cup ({ now + 1 } \cap EntityClock) :
          /\ entity' = Entity_record_access(entity, now, t2)
          /\ now' = t2
    /\ call' = Called("record_access", now, "none", entity)
    /\ UNCHANGED nextId
    /\ EntityFrame

\* AccessStatistics::record_access called on the public field access_statistics.
StatsRecordAccess ==
    /\ entity.access_statistics.total_accesses < MaxAccesses
    /\ entity' = [ entity EXCEPT !.access_statistics = AccessStatistics_record_access(@, now) ]
    /\ call' = Called("stats_record_access", now, "none", entity)
    /\ UNCHANGED <<now, nextId>>
    /\ EntityFrame

\* A write to the public field access_statistics.access_frequency.
SetAccessFrequency ==
    /\ \E f \in FrequencyInputs :
          /\ entity' = [ entity EXCEPT !.access_statistics.access_frequency = f ]
          /\ call' = Called("set_access_frequency", f, "none", entity)
    /\ UNCHANGED <<now, nextId>>
    /\ EntityFrame

\* record_co_access with an id the identifier source has just produced.
RecordCoAccessFresh(limit) ==
    /\ nextId <= limit
    /\ entity' = [ entity EXCEPT !.access_statistics = record_co_access(@, nextId) ]
    /\ nextId' = nextId + 1
    /\ call' = Called("record_co_access", nextId, "none", entity)
    /\ UNCHANGED now
    /\ EntityFrame

\* record_co_access with an id that is already in the history: the oldest,
\* the middle or the newest one held.
RecordCoAccessKnown ==
    /\ \E i \in { 1, (Len(entity.access_statistics.co_access_entities) + 1) \div 2,
                  Len(entity.access_statistics.co_access_entities) }
                \cap DOMAIN entity.access_statistics.co_access_entities :
          LET id == entity.access_statistics.co_access_entities[i]
          IN  /\ entity' = [ entity EXCEPT !.access_statistics = record_co_access(@, id) ]
              /\ call' = Called("record_co_access", id, "none", entity)
    /\ UNCHANGED <<now, nextId>>
    /\ EntityFrame

\* record_co_access with an id that was in the history and has been evicted,
\* explored while exactly one id is out of the history.
RecordCoAccessEvicted ==
    /\ LET out == { id \in 1..(nextId - 1) :
                      ~Contains(entity.access_statistics.co_access_entities, id) }
       IN  /\ Cardinality(out) = 1
           /\ \E id \in out :
                 /\ entity' = [ entity EXCEPT !.access_statistics = record_co_access(@, id) ]
                 /\ call' = Called("record_co_access", id, "none", entity)
    /\ UNCHANGED <<now, nextId>>
    /\ EntityFrame

\* is_stagnant() of the entity's statistics.
is_stagnant(s, t) == hours_since_last_access(s, t) >= 90 * 24 * TicksPerHour

\* Clock readings around 90 days (1,944,000,000 ticks).
StagnantClock == { 0, 1, 1943999935, 1943999936, 1943999999, 1944000000, 1944000001 }

TickStagnant ==
    /\ \E t \in StagnantClock : t > now /\ now' = t
    /\ call' = Called("tick", 0, "none", entity)
    /\ UNCHANGED <<entity, nextId>>
    /\ EntityFrame

IsStagnant ==
    /\ call' = Called("is_stagnant", 0,
                      BoolStr(is_stagnant(entity.access_statistics, now)), entity)
    /\ UNCHANGED <<now, entity, nextId>>
    /\ EntityFrame

ShouldPromote ==
    /\ call' = Called("should_promote", 0, BoolStr(should_promote(entity)), entity)
    /\ UNCHANGED <<now, entity, nextId>>
    /\ EntityFrame

HoursSinceLastAccess ==
    /\ call' = Called("hours_since_last_access", 0,
                      hours_since_last_access(entity.access_statistics, now), entity)
    /\ UNCHANGED <<now, entity, nextId>>
    /\ EntityFrame

\* should_demote counting itself as an access.
ShouldDemote_recording_access ==
    /\ entity' = [ entity EXCEPT !.access_statistics = AccessStatistics_record_access(@, now) ]
    /\ call' = Called("should_demote", 0, BoolStr(should_demote(entity, now)), entity)
    /\ UNCHANGED <<now, nextId>>
    /\ EntityFrame

ShouldDemote ==
    /\ call' = Called("should_demote", 0, BoolStr(should_demote(entity, now)), entity)
    /\ UNCHANGED <<now, entity, nextId>>
    /\ EntityFrame

Promote ==
    /\ entity' = promote(entity, now)
    /\ call' = Called("promote", 0, "none", entity)
    /\ UNCHANGED <<now, nextId>>
    /\ EntityFrame

Demote ==
    /\ entity' = demote(entity, now)
    /\ call' = Called("demote", 0, "none", entity)
    /\ UNCHANGED <<now, nextId>>
    /\ EntityFrame

-----------------------------------------------------------------------------
(* f32 values of Edge: finite (thousandths), NaN, +infinity, -infinity *)

\* 1.0 in thousandths.
One == 1000

Num(v) == [ k |-> "num", v |-> v ]
NaN    == [ k |-> "nan", v |-> 0 ]
PosInf == [ k |-> "inf", v |-> 1 ]
NegInf == [ k |-> "inf", v |-> -1 ]

IsNaN(x) == x.k = "nan"
IsInf(x) == x.k = "inf"
Sgn(x) == IF x.v > 0 THEN 1 ELSE IF x.v < 0 THEN -1 ELSE 0

\* The position of a non-NaN value in the order of the extended reals.
Rank(x) == IF IsInf(x) THEN x.v * 2000000000 ELSE x.v

\* IEEE comparisons: every comparison with NaN is false.
FLt(a, b) == ~IsNaN(a) /\ ~IsNaN(b) /\ Rank(a) < Rank(b)
FGt(a, b) == FLt(b, a)

FNeg(a) == IF IsNaN(a) THEN NaN ELSE [ a EXCEPT !.v = -@ ]

FAdd(a, b) ==
    IF IsNaN(a) \/ IsNaN(b) THEN NaN
    ELSE IF IsInf(a) /\ IsInf(b) THEN (IF a.v = b.v THEN a ELSE NaN)
    ELSE IF IsInf(a) THEN a
    ELSE IF IsInf(b) THEN b
    ELSE Num(a.v + b.v)

FSub(a, b) == FAdd(a, FNeg(b))

\* The product of two finite values, truncated to thousandths.
MulFix(x, y) ==
    LET p == x * y
    IN  IF p >= 0 THEN p \div One ELSE -((-p) \div One)

FMul(a, b) ==
    IF IsNaN(a) \/ IsNaN(b) THEN NaN
    ELSE IF IsInf(a) \/ IsInf(b)
         THEN (IF Sgn(a) * Sgn(b) = 0 THEN NaN
               ELSE IF Sgn(a) * Sgn(b) > 0 THEN PosInf ELSE NegInf)
    ELSE Num(MulFix(a.v, b.v))

\* IEEE ==: false whenever an operand is NaN.
FEq(a, b) == ~IsNaN(a) /\ ~IsNaN(b) /\ Rank(a) = Rank(b)

\* The quotient of two finite values, truncated to thousandths.
DivFix(x, y) ==
    LET q == ((IF x >= 0 THEN x ELSE -x) * One) \div (IF y >= 0 THEN y ELSE -y)
    IN  IF (x >= 0) = (y >= 0) THEN q ELSE -q

FDiv(a, b) ==
    IF IsNaN(a) \/ IsNaN(b) THEN NaN
    ELSE IF IsInf(a) /\ IsInf(b) THEN NaN
    ELSE IF IsInf(a) THEN (IF (a.v > 0) = (b.v >= 0) THEN PosInf ELSE NegInf)
    ELSE IF IsInf(b) THEN Num(0)
    ELSE IF b.v = 0
         THEN (IF a.v = 0 THEN NaN ELSE IF a.v > 0 THEN PosInf ELSE NegInf)
    ELSE Num(DivFix(a.v, b.v))

\* The largest r in lo..hi with r * r <= n, given lo * lo <= n.
RECURSIVE SqrtBetween(_, _, _)
SqrtBetween(n, lo, hi) ==
    IF lo >= hi THEN lo
    ELSE LET mid == (lo + hi + 1) \div 2
         IN  IF mid * mid <= n THEN SqrtBetween(n, mid, hi)
             ELSE SqrtBetween(n, lo, mid - 1)

\* f32::sqrt: NaN for NaN and for negative values, +inf for +inf.
FSqrt(x) ==
    IF IsNaN(x) THEN NaN
    ELSE IF IsInf(x) THEN (IF x.v > 0 THEN PosInf ELSE NaN)
    ELSE IF x.v < 0 THEN NaN
    ELSE Num(SqrtBetween(x.v * One, 0, 46340))

\* Iterator::sum::<f32>(): the terms added left to right, starting from 0.0.
RECURSIVE FSumFrom(_, _)
FSumFrom(acc, terms) ==
    IF terms = << >> THEN acc ELSE FSumFrom(FAdd(acc, Head(terms)), Tail(terms))

FSum(terms) == FSumFrom(Num(0), terms)

\* f32::clamp: `if x < min { x = min } if x > max { x = max } x`; NaN passes through.
clamp(x, min, max) ==
    LET x1 == IF FLt(x, min) THEN min ELSE x
    IN  IF FGt(x1, max) THEN max ELSE x1

\* e^(f/1000) for 0 <= f < 1000, in thousandths (Taylor series, six terms).
ExpFrac(f) ==
    LET t2 == (f * f) \div 2000
        t3 == (t2 * f) \div 3000
        t4 == (t3 * f) \div 4000
        t5 == (t4 * f) \div 5000
        t6 == (t5 * f) \div 6000
    IN  One + f + t2 + t3 + t4 + t5 + t6

\* Finite results above this value are held as this value (500.0).
EXP_CAP == 500000

\* e^n for an integer n >= 0, in thousandths, saturating at EXP_CAP.
RECURSIVE ExpInt(_)
ExpInt(n) ==
    IF n = 0 THEN One
    ELSE LET r == ExpInt(n - 1)
         IN  IF r >= EXP_CAP THEN EXP_CAP
             ELSE IF (r * 2718) \div One > EXP_CAP THEN EXP_CAP
             ELSE (r * 2718) \div One

\* e^(x/1000) for x >= 0, saturating at EXP_CAP.
ExpPos(x) ==
    LET whole == ExpInt(IF x \div One > 14 THEN 14 ELSE x \div One)
        p == (whole \div 8) * ExpFrac(x % One)
    IN  IF p \div 125 > EXP_CAP THEN EXP_CAP ELSE p \div 125

\* f32::exp: NaN for NaN, +inf for +inf and for every finite argument above
\* ln(f32::MAX) = 88.72, 0 for -inf, 1 at 0.
exp(x) ==
    IF IsNaN(x) THEN NaN
    ELSE IF IsInf(x) THEN (IF x.v > 0 THEN PosInf ELSE Num(0))
    ELSE IF x.v > 88722 THEN PosInf
    ELSE IF x.v >= 0 THEN Num(ExpPos(x.v))
    ELSE IF x.v < -6907 THEN Num(0)
    ELSE Num((One * One) \div ExpPos(-x.v))

-----------------------------------------------------------------------------
(* Vector *)

\* The result of a call that returns a value, and of one that panics.
Returned(v) == [ outcome |-> "ok", val |-> v ]
Panicked(message) == [ outcome |-> "panic", val |-> [ message |-> message ] ]

Min(a, b) == IF a < b THEN a ELSE b

compute_norm(values) ==
    FSqrt(FSum([ i \in DOMAIN values |-> FMul(values[i], values[i]) ]))

Vector_new(values) ==
    IF values = << >>
    THEN Panicked("Vector values cannot be empty")
    ELSE Returned([ dimensions |-> Len(values),
                    values     |-> values,
                    norm       |-> compute_norm(values) ])

zeros(dimensions) ==
    [ dimensions |-> dimensions,
      values     |-> [ i \in 1..dimensions |-> Num(0) ],
      norm       |-> Num(0) ]

update_norm(v) == [ v EXCEPT !.norm = compute_norm(v.values) ]

\* `if self.norm == 0.0 { return; }`, then every value divided by the cached
\* norm and the norm set to 1.0.
normalize(v) ==
    IF FEq(v.norm, Num(0)) THEN v
    ELSE [ v EXCEPT !.values = [ i \in DOMAIN v.values |-> FDiv(v.values[i], v.norm) ],
                    !.norm   = Num(One) ]

\* zip stops at the shorter of the two value sequences.
dot(v, other) ==
    IF v.dimensions # other.dimensions
    THEN Panicked("Vector dimensions must match for dot product")
    ELSE Returned(FSum([ i \in 1..Min(Len(v.values), Len(other.values)) |->
                            FMul(v.values[i], other.values[i]) ]))

\* cosine_similarity dividing without looking at the norms.
cosine_similarity_unguarded(v, other) ==
    LET dot_product == dot(v, other)
    IN  IF dot_product.outcome = "panic" THEN dot_product
        ELSE Returned(FDiv(dot_product.val, FMul(v.norm, other.norm)))

cosine_similarity(v, other) ==
    IF FEq(v.norm, Num(0)) \/ FEq(other.norm, Num(0))
    THEN Returned(Num(0))
    ELSE LET dot_product == dot(v, other)
         IN  IF dot_product.outcome = "panic" THEN dot_product
             ELSE Returned(FDiv(dot_product.val, FMul(v.norm, other.norm)))

euclidean_distance(v, other) ==
    IF v.dimensions # other.dimensions
    THEN Panicked("Vector dimensions must match for distance calculation")
    ELSE Returned(FSqrt(FSum([ i \in 1..Min(Len(v.values), Len(other.values)) |->
                                  LET diff == FSub(v.values[i], other.values[i])
                                  IN  FMul(diff, diff) ])))

-----------------------------------------------------------------------------
(* u64 values that do not fit a 32-bit integer: little-endian 16-bit limbs *)

LIMB == 65536

\* The u64 of a small natural number.
U64Of(n) == << n % LIMB, (n \div LIMB) % LIMB, 0, 0 >>
U64_MAX == << LIMB - 1, LIMB - 1, LIMB - 1, LIMB - 1 >>

\* The exact product of a limb sequence with a small factor: one limb longer.
RECURSIVE MulLimbs(_, _, _)
MulLimbs(x, c, carry) ==
    IF x = << >> THEN << carry >>
    ELSE LET p == Head(x) * c + carry
         IN  << p % LIMB >> \o MulLimbs(Tail(x), c, p \div LIMB)

\* u64 * c: the wrapped product and whether it overflowed 64 bits.
U64Mul(x, c) ==
    LET full == MulLimbs(x, c, 0)
    IN  [ value |-> SubSeq(full, 1, 4), overflow |-> full[5] # 0 ]

Limb(x, i) == IF i <= Len(x) THEN x[i] ELSE 0

\* a > b for two limb sequences of any lengths, as natural numbers.
RECURSIVE LimbsGtFrom(_, _, _)
LimbsGtFrom(a, b, i) ==
    IF i = 0 THEN FALSE
    ELSE IF Limb(a, i) # Limb(b, i) THEN Limb(a, i) > Limb(b, i)
    ELSE LimbsGtFrom(a, b, i - 1)

LimbsGt(a, b) == LimbsGtFrom(a, b, IF Len(a) > Len(b) THEN Len(a) ELSE Len(b))

\* x - y limb by limb with borrow: the difference modulo 2^64.
RECURSIVE SubLimbs(_, _, _)
SubLimbs(x, y, borrow) ==
    IF x = << >> THEN << >>
    ELSE LET d == Head(x) - Head(y) - borrow
         IN  << (d + LIMB) % LIMB >> \o SubLimbs(Tail(x), Tail(y), IF d < 0 THEN 1 ELSE 0)

\* u64 - u64: the wrapped difference and whether it underflowed.
U64Sub(x, y) == [ value |-> SubLimbs(x, y, 0), overflow |-> LimbsGt(y, x) ]

\* A clock reading or stored timestamp (ticks) as the u64 of its milliseconds.
MsOf(t) == U64Mul(U64Of(t), TICK_MS).value

\* A u64 shifted right by one bit.
ShiftR(x) ==
    << x[1] \div 2 + (x[2] % 2) * (LIMB \div 2),
       x[2] \div 2 + (x[3] % 2) * (LIMB \div 2),
       x[3] \div 2 + (x[4] % 2) * (LIMB \div 2),
       x[4] \div 2 >>

\* Rounding to 24 significant bits, ties to even: bits are shifted out until
\* 24 remain; guard is the last bit shifted out, sticky whether any earlier
\* one was set.
RECURSIVE RoundLimbs(_, _, _, _)
RoundLimbs(x, guard, sticky, e) ==
    IF x[4] = 0 /\ x[3] = 0 /\ x[2] < 256
    THEN LET m == x[2] * LIMB + x[1]
         IN  [ mant |-> IF guard = 1 /\ (sticky = 1 \/ m % 2 = 1) THEN m + 1 ELSE m,
               exp  |-> e ]
    ELSE RoundLimbs(ShiftR(x), x[1] % 2, IF guard = 1 \/ sticky = 1 THEN 1 ELSE 0, e + 1)

\* `x as f32` for any u64 x: the value mant * 2^exp.
U64AsF32(x) == RoundLimbs(x, 0, 0, 0)

-----------------------------------------------------------------------------
(* Edge *)

MS_PER_DAY == 86400000
TicksPerDay == MS_PER_DAY \div TICK_MS

Edge_new(source_id, target_id, label, weight, metadata, t) ==
    LET w == clamp(weight, Num(0), Num(One))
    IN  [ source_id     |-> source_id,
          target_id     |-> target_id,
          label         |-> label,
          weight        |-> w,
          metadata      |-> metadata,
          probability   |-> w,
          access_count  |-> 0,
          last_accessed |-> t ]

\* AtomicU64::fetch_add(1): the new value of the cell.
fetch_add(cell, n) == cell + n

\* Edge::record_access run by one caller with no other caller in between.
Edge_record_access(e, t) ==
    [ e EXCEPT !.access_count = fetch_add(@, 1), !.last_accessed = t ]

\* update_probability stepping by learning_rate * target.
update_probability_without_difference(e, target, learning_rate) ==
    LET tg == clamp(target, Num(0), Num(One))
        lr == clamp(learning_rate, Num(0), Num(One))
        p  == FAdd(e.probability, FMul(lr, tg))
    IN  [ e EXCEPT !.probability = clamp(p, Num(0), Num(One)) ]

update_probability(e, target, learning_rate) ==
    LET tg == clamp(target, Num(0), Num(One))
        lr == clamp(learning_rate, Num(0), Num(One))
        p  == FAdd(e.probability, FMul(lr, FSub(tg, e.probability)))
    IN  [ e EXCEPT !.probability = clamp(p, Num(0), Num(One)) ]

\* (current - last_accessed) as f32 / 86,400,000.0, in thousandths of a day.
days_elapsed(e, t) == Num(AsF32(t - e.last_accessed) \div (TicksPerDay \div One))

\* apply_decay that also stamps the edge with the clock reading.
apply_decay_stamping(e, decay_rate, t) ==
    LET decay_factor == exp(FMul(FNeg(decay_rate), days_elapsed(e, t)))
        p == FMul(e.probability, decay_factor)
    IN  [ e EXCEPT !.probability = clamp(p, Num(0), Num(One)), !.last_accessed = t ]

apply_decay(e, decay_rate, t) ==
    LET decay_factor == exp(FMul(FNeg(decay_rate), days_elapsed(e, t)))
        p == FMul(e.probability, decay_factor)
    IN  [ e EXCEPT !.probability = clamp(p, Num(0), Num(One)) ]

\* inactivity_days * 24 * 60 * 60 * 1000 in u64, multiplied left to right.
inactivity_ms(inactivity_days) ==
    LET m1 == U64Mul(inactivity_days, 24)
        m2 == U64Mul(m1.value, 60)
        m3 == U64Mul(m2.value, 60)
        m4 == U64Mul(m3.value, 1000)
    IN  [ value    |-> m4.value,
          overflow |-> m1.overflow \/ m2.overflow \/ m3.overflow \/ m4.overflow ]

\* current - last_accessed in milliseconds, as a u64.
elapsed_ms(e, t) == U64Sub(MsOf(t), MsOf(e.last_accessed)).value

\* The outcomes of should_prune.  An overflowing multiplication and an
\* underflowing subtraction panic in a build with overflow checks and wrap in
\* a build without them.
should_prune(e, threshold, inactivity_days, t) ==
    IF FLt(e.probability, threshold) THEN { "true" }
    ELSE LET window == inactivity_ms(inactivity_days)
             diff == U64Sub(MsOf(t), MsOf(e.last_accessed))
             wrapped == BoolStr(LimbsGt(elapsed_ms(e, t), window.value))
         IN  IF window.overflow \/ diff.overflow THEN { "panic", wrapped } ELSE { wrapped }

\* The timestamps of the skewed-clock specification lie a few ticks after the
\* clock reading at most, so a wrapped difference is above 2^63 ms: more than
\* 10^12 hours, 10^11 days.

\* a * d in f32 for a day count d above 10^11, as far as exp tells the
\* products apart: 0 for 0, beyond the range of exp for every other value the
\* model holds (0.001 and above in magnitude).
FMulHuge(a) ==
    IF IsNaN(a) THEN NaN
    ELSE IF a.v = 0 THEN Num(0)
    ELSE IF a.v > 0 THEN PosInf
    ELSE NegInf

\* The outcomes of apply_decay for any stored timestamp.
apply_decay_any(e, decay_rate, t) ==
    IF ~U64Sub(MsOf(t), MsOf(e.last_accessed)).overflow
    THEN { Returned(apply_decay(e, decay_rate, t)) }
    ELSE LET decay_factor == exp(FMulHuge(FNeg(decay_rate)))
             p == FMul(e.probability, decay_factor)
         IN  { Panicked("attempt to subtract with overflow"),
               Returned([ e EXCEPT !.probability = clamp(p, Num(0), Num(One)) ]) }

\* The outcomes of hours_since_last_access for any stored timestamp: the f32
\* of the millisecond difference, the numerator of the quotient by 3,600,000.0.
hours_since_last_access_any(s, t) ==
    LET diff == U64Sub(MsOf(t), MsOf(s.last_access))
    IN  IF diff.overflow
        THEN { Panicked("attempt to subtract with overflow"), Returned(U64AsF32(diff.value)) }
        ELSE { Returned(U64AsF32(diff.value)) }

\* The outcomes of AccessStatistics::record_access for any stored timestamp.
\* With a wrapped difference hours_elapsed is positive and 1.0 / hours_elapsed
\* is below 10^-12: nothing in tenths.
AccessStatistics_record_access_any(s, t) ==
    IF ~U64Sub(MsOf(t), MsOf(s.last_access)).overflow
    THEN { Returned(AccessStatistics_record_access(s, t)) }
    ELSE { Panicked("attempt to subtract with overflow"),
           Returned([ s EXCEPT !.total_accesses = @ + 1,
                               !.last_access = t,
                               !.access_frequency = (9 * @ + 0) \div 10 ]) }

-----------------------------------------------------------------------------
(* Operations on the edge, one caller at a time *)

\* Clock readings of the edge specification (ticks): around one day.
EdgeClock == { 0, 1, 21600000, 21600001 }

WeightInputs == { Num(-500), Num(0), Num(5), Num(500), Num(One), Num(1500),
                  NaN, PosInf, NegInf }
TargetInputs == { Num(-500), Num(800), Num(One), Num(1500), NaN }
LearningRateInputs == { Num(0), Num(100), Num(500), Num(One), NaN }
DecayRateInputs == { Num(0), Num(10), Num(-100000), NaN, PosInf }
ThresholdInputs == { Num(10), Num(2000), NaN }
\* 0, 1, 2^54 and u64::MAX days.
InactivityDaysInputs == { U64Of(0), U64Of(1), << 0, 0, 0, 64 >>, U64_MAX }

EdgeFrame == UNCHANGED <<entity, nextId, threads, objects, atomics>>

TickEdge ==
    /\ \E t \in EdgeClock : t > now /\ now' = t
    /\ call' = Called("tick", 0, "none", edge)
    /\ UNCHANGED <<edge, issued>>
    /\ EdgeFrame

EdgeRecordAccess ==
    /\ issued < MaxEdgeCalls
    /\ edge' = Edge_record_access(edge, now)
    /\ issued' = issued + 1
    /\ call' = Called("record_access", 0, "none", edge)
    /\ UNCHANGED now
    /\ EdgeFrame

UpdateProbability ==
    /\ issued < MaxEdgeCalls
    /\ \E target \in TargetInputs, learning_rate \in LearningRateInputs :
          LET e == update_probability(edge, target, learning_rate)
          IN  /\ edge' = e
              /\ call' = Called("update_probability", <<target, learning_rate>>,
                                e.probability, edge)
    /\ issued' = issued + 1
    /\ UNCHANGED now
    /\ EdgeFrame

ApplyDecay ==
    /\ issued < MaxEdgeCalls
    /\ \E decay_rate \in DecayRateInputs :
          LET e == apply_decay(edge, decay_rate, now)
          IN  /\ edge' = e
              /\ call' = Called("apply_decay", decay_rate, e.probability, edge)
    /\ issued' = issued + 1
    /\ UNCHANGED now
    /\ EdgeFrame

\* Clock readings of the skewed-clock specification (ticks): SystemTime is
\* not monotonic, the next reading may be earlier than the last.
SkewClock == { 0, 1, 2, 21600000 }

SkewFrame == UNCHANGED <<nextId, threads, objects, atomics>>

TickSkew ==
    /\ \E t \in SkewClock : t # now /\ now' = t
    /\ call' = Called("tick", 0, "none", entity)
    /\ UNCHANGED <<entity, edge, issued>>
    /\ SkewFrame

SkewStatsRecordAccess ==
    /\ entity.access_statistics.total_accesses < MaxAccesses
    /\ \E r \in AccessStatistics_record_access_any(entity.access_statistics, now) :
          /\ entity' = IF r.outcome = "ok"
                       THEN [ entity EXCEPT !.access_statistics = r.val ]
                       ELSE entity
          /\ call' = Called("stats_record_access", now, r.outcome, entity)
    /\ UNCHANGED <<now, edge, issued>>
    /\ SkewFrame

SkewHoursSinceLastAccess ==
    /\ \E r \in hours_since_last_access_any(entity.access_statistics, now) :
          call' = Called("hours_since_last_access", now, r, entity)
    /\ UNCHANGED <<now, entity, edge, issued>>
    /\ SkewFrame

SkewApplyDecay ==
    /\ issued < MaxEdgeCalls
    /\ \E decay_rate \in DecayRateInputs :
          \E r \in apply_decay_any(edge, decay_rate, now) :
              /\ edge' = IF r.outcome = "ok" THEN r.val ELSE edge
              /\ call' = Called("apply_decay", decay_rate, r.outcome, edge)
    /\ issued' = issued + 1
    /\ UNCHANGED <<now, entity>>
    /\ SkewFrame

\* Starting weights of the learning specification: 0.0, 0.1, .. 0.5.
LearnWeightInputs == { Num(0), Num(100), Num(200), Num(300), Num(400), Num(500) }

\* update_probability(1.0, 0.1), called again and again.
Learn ==
    /\ LET e == update_probability(edge, Num(One), Num(100))
       IN  /\ edge' = e
           /\ call' = Called("update_probability", << Num(One), Num(100) >>,
                             e.probability, edge)
    /\ UNCHANGED <<now, issued>>
    /\ EdgeFrame

ShouldPrune ==
    /\ \E threshold \in ThresholdInputs, inactivity_days \in InactivityDaysInputs :
          \E r \in should_prune(edge, threshold, inactivity_days, now) :
              call' = Called("should_prune", <<threshold, inactivity_days>>, r, edge)
    /\ UNCHANGED <<now, edge, issued>>
    /\ EdgeFrame

-----------------------------------------------------------------------------
(* Edge::record_access called by several threads with no lock *)

Threads == 1..MaxThreads

\* The steps of Edge::record_access: the atomic increment, the clock reading,
\* the atomic store of that reading.
\* record_access incrementing with a separate load and store.
record_access_code_load_store ==
    << "load", "store_loaded_plus_one", "read_clock", "store" >>

\* record_access storing the timestamp before it increments the count.
record_access_code_timestamp_first == << "read_clock", "store", "fetch_add" >>

record_access_code == << "fetch_add", "read_clock", "store" >>

Idle == [ pc |-> 0, reg |-> 0 ]

ConcFrame == UNCHANGED <<entity, nextId, objects, atomics, call>>

TickConc ==
    /\ now < MaxConcClock
    /\ now' = now + 1
    /\ UNCHANGED <<edge, threads, issued>>
    /\ ConcFrame

\* Thread t enters record_access.
Enter(t) ==
    /\ threads[t].pc = 0
    /\ issued < MaxConcCalls
    /\ threads' = [ threads EXCEPT ![t].pc = 1 ]
    /\ issued' = issued + 1
    /\ UNCHANGED <<now, edge>>
    /\ ConcFrame

\* Thread t runs its next step; after the last one the call has completed.
Step(t) ==
    LET th  == threads[t]
        ins == record_access_code[th.pc]
    IN  /\ th.pc > 0
        /\ edge' = IF ins = "fetch_add"
                   THEN [ edge EXCEPT !.access_count = fetch_add(@, 1) ]
                   ELSE IF ins = "store_loaded_plus_one"
                   THEN [ edge EXCEPT !.access_count = th.reg + 1 ]
                   ELSE IF ins = "store"
                   THEN [ edge EXCEPT !.last_accessed = th.reg ]
                   ELSE edge
        /\ threads' = [ threads EXCEPT ![t] =
                          [ pc  |-> IF th.pc = Len(record_access_code) THEN 0 ELSE th.pc + 1,
                            reg |-> IF ins = "load" THEN edge.access_count
                                    ELSE IF ins = "read_clock" THEN now
                                    ELSE IF th.pc = Len(record_access_code) THEN 0
                                    ELSE th.reg ] ]
        /\ UNCHANGED <<now, issued>>
        /\ ConcFrame

\* A reader calls get_access_count: one atomic load.
GetAccessCount ==
    /\ call' = Called("get_access_count", 0, edge.access_count, call.pre)
    /\ UNCHANGED <<now, edge, threads, issued, entity, nextId, objects, atomics>>

\* The same reader then calls get_last_accessed: a second atomic load.  The
\* record of the call keeps, as arg, the count the reader holds already.
GetLastAccessed ==
    /\ call.op = "get_access_count"
    /\ call' = Called("get_last_accessed", call.ret, edge.last_accessed, call.pre)
    /\ UNCHANGED <<now, edge, threads, issued, entity, nextId, objects, atomics>>

-----------------------------------------------------------------------------
(* Operations on vectors *)

\* Value sequences handed to Vector::new: empty, (0.0), (0.0, 0.0), one value
\* so small that its square underflows to 0.0, (1.0), (1.0, 1.0), (3.0, 4.0),
\* (NaN), (+inf).
VectorValueInputs ==
    { << >>, << Num(0) >>, << Num(0), Num(0) >>, << Num(1) >>, << Num(One) >>,
      << Num(One), Num(One) >>, << Num(3000), Num(4000) >>, << NaN >>, << PosInf >> }

\* Values written into the public field values: 0.0 and 3.0.
VectorWriteInputs == { Num(0), Num(3000) }

\* Dimensions handed to Vector::zeros.
ZerosInputs == { 0, 2 }

VectorFrame == UNCHANGED <<now, entity, nextId, edge, threads, issued, atomics>>

VectorNew ==
    /\ \E values \in VectorValueInputs :
          LET r == Vector_new(values)
          IN  /\ call' = Called("Vector::new", values, r, objects)
              /\ IF r.outcome = "ok"
                 THEN /\ Len(objects) < MaxVectors
                      /\ objects' = Append(objects, [ kind |-> "vector", origin |-> "new",
                                                       val |-> r.val ])
                 ELSE UNCHANGED objects
    /\ VectorFrame

VectorZeros ==
    /\ Len(objects) < MaxVectors
    /\ \E dimensions \in ZerosInputs :
          /\ objects' = Append(objects, [ kind |-> "vector", origin |-> "zeros",
                                          val |-> zeros(dimensions) ])
          /\ call' = Called("Vector::zeros", dimensions, Returned(zeros(dimensions)), objects)
    /\ VectorFrame

Dot ==
    /\ \E i \in DOMAIN objects, j \in DOMAIN objects :
          call' = Called("dot", << i, j >>, dot(objects[i].val, objects[j].val), objects)
    /\ UNCHANGED objects
    /\ VectorFrame

CosineSimilarity ==
    /\ \E i \in DOMAIN objects, j \in DOMAIN objects :
          call' = Called("cosine_similarity", << i, j >>,
                         cosine_similarity(objects[i].val, objects[j].val), objects)
    /\ UNCHANGED objects
    /\ VectorFrame

EuclideanDistance ==
    /\ \E i \in DOMAIN objects, j \in DOMAIN objects :
          call' = Called("euclidean_distance", << i, j >>,
                         euclidean_distance(objects[i].val, objects[j].val), objects)
    /\ UNCHANGED objects
    /\ VectorFrame

VectorMutFrame == UNCHANGED <<now, entity, nextId, edge, threads, atomics>>

\* `v.values[k] = x` through the public field.
SetValue ==
    /\ issued < MaxVectorCalls
    /\ \E i \in DOMAIN objects, x \in VectorWriteInputs :
          \E k \in DOMAIN objects[i].val.values :
              /\ objects' = [ objects EXCEPT ![i].val.values[k] = x ]
              /\ call' = Called("set_value", << i, k, x >>, Returned("none"), objects)
    /\ issued' = issued + 1
    /\ VectorMutFrame

UpdateNorm ==
    /\ issued < MaxVectorCalls
    /\ \E i \in DOMAIN objects :
          /\ objects' = [ objects EXCEPT ![i].val = update_norm(@) ]
          /\ call' = Called("update_norm", i, Returned("none"), objects)
    /\ issued' = issued + 1
    /\ VectorMutFrame

Normalize ==
    /\ issued < MaxVectorCalls
    /\ \E i \in DOMAIN objects :
          /\ objects' = [ objects EXCEPT ![i].val = normalize(@) ]
          /\ call' = Called("normalize", i, Returned("none"), objects)
    /\ issued' = issued + 1
    /\ VectorMutFrame

-----------------------------------------------------------------------------
(* Edges and entities alive side by side: originals, clones, decoded copies *)

\* AtomicU64::new(v): one more cell, holding v; its address is the new length.
AtomicU64_new(cells, v) == Append(cells, v)
load(cells, a) == cells[a]
store(cells, a, v) == [ cells EXCEPT ![a] = v ]

\* An Edge value in memory: its two AtomicU64 fields are cells of their own
\* and the fields hold the cells' addresses.
EdgeAt(cells, e) ==
    LET c1 == AtomicU64_new(cells, e.access_count)
        c2 == AtomicU64_new(c1, e.last_accessed)
    IN  [ obj   |-> [ e EXCEPT !.access_count = Len(c1), !.last_accessed = Len(c2) ],
          cells |-> c2 ]

\* The Edge read through its cells.
Loaded(cells, o) ==
    [ o EXCEPT !.access_count = load(cells, @), !.last_accessed = load(cells, @) ]

\* Edge::clone handing the clone the original's two cells.
Edge_clone_sharing(cells, o) == [ obj |-> o, cells |-> cells ]

\* impl Clone for Edge: the plain fields are copied and each atomic field is
\* a new AtomicU64 holding the value loaded from the original.
Edge_clone(cells, o) == EdgeAt(cells, Loaded(cells, o))

\* Vec<Edge>::clone: Edge::clone of every element, in order.
RECURSIVE CloneEdges(_, _)
CloneEdges(cells, es) ==
    IF es = << >> THEN [ objs |-> << >>, cells |-> cells ]
    ELSE LET h == Edge_clone(cells, Head(es))
             r == CloneEdges(h.cells, Tail(es))
         IN  [ objs |-> << h.obj >> \o r.objs, cells |-> r.cells ]

\* #[derive(Clone)] for Entity: every field cloned; the other fields hold no cell.
Entity_clone(cells, e) ==
    IF e.edges = None THEN [ obj |-> e, cells |-> cells ]
    ELSE LET r == CloneEdges(cells, e.edges[1])
         IN  [ obj |-> [ e EXCEPT !.edges = Some(r.objs) ], cells |-> r.cells ]

\* Edge::record_access on an Edge in memory, one caller.
Edge_record_access_at(cells, o, t) ==
    LET e == Edge_record_access(Loaded(cells, o), t)
    IN  store(store(cells, o.access_count, e.access_count),
              o.last_accessed, e.last_accessed)

\* The edges an object holds: itself for an Edge, its edges for an Entity.
EdgesOf(object) ==
    IF object.kind = "edge" THEN << object.val >>
    ELSE IF object.val.edges = None THEN << >>
    ELSE object.val.edges[1]

Object(kind, origin, val) == [ kind |-> kind, origin |-> origin, val |-> val ]

IdInputs == { 1, 2 }
LabelInputs == { "related_to", "similar_to" }
NewWeightInputs == { Num(500), Num(1500), NaN }
MetadataInputs == { None, Some("meta") }

ObjectsFrame == UNCHANGED <<entity, edge, threads>>

Memory == [ objects |-> objects, atomics |-> atomics ]

TickObjects ==
    /\ now < MaxObjectClock
    /\ now' = now + 1
    /\ call' = Called("tick", 0, "none", Memory)
    /\ UNCHANGED <<objects, atomics, issued, nextId>>
    /\ ObjectsFrame

\* Edge::new; the first value made, from which the copies are taken.
NewEdge ==
    /\ objects = << >>
    /\ \E source_id \in IdInputs :
       \E target_id \in IdInputs \ { source_id }, label \in LabelInputs,
          weight \in NewWeightInputs, metadata \in MetadataInputs :
          LET placed == EdgeAt(atomics, Edge_new(source_id, target_id, label,
                                                 weight, metadata, now))
          IN  /\ objects' = << Object("edge", "new", placed.obj) >>
              /\ atomics' = placed.cells
              /\ call' = Called("Edge::new",
                                << source_id, target_id, label, weight, metadata >>,
                                "none", Memory)
    /\ UNCHANGED <<now, issued, nextId>>
    /\ ObjectsFrame

\* Edge::record_access on an Edge, or on an edge held by an Entity.
ObjectRecordAccess ==
    /\ issued < MaxObjectCalls
    /\ \E i \in DOMAIN objects :
          \E k \in DOMAIN EdgesOf(objects[i]) :
              /\ atomics' = Edge_record_access_at(atomics, EdgesOf(objects[i])[k], now)
              /\ call' = Called("edge_record_access", << i, k >>, "none", Memory)
    /\ issued' = issued + 1
    /\ UNCHANGED <<now, objects, nextId>>
    /\ ObjectsFrame

CloneObject ==
    /\ Len(objects) < MaxObjects
    /\ \E i \in DOMAIN objects :
          LET r == IF objects[i].kind = "edge"
                   THEN Edge_clone(atomics, objects[i].val)
                   ELSE Entity_clone(atomics, objects[i].val)
          IN  /\ objects' = Append(objects, Object(objects[i].kind, "clone", r.obj))
              /\ atomics' = r.cells
              /\ call' = Called("clone", i, "none", Memory)
    /\ UNCHANGED <<now, issued, nextId>>
    /\ ObjectsFrame

\* Edge values handed to Entity::new, placed in memory one after the other.
RECURSIVE PlaceEdges(_, _)
PlaceEdges(cells, es) ==
    IF es = << >> THEN [ objs |-> << >>, cells |-> cells ]
    ELSE LET h == EdgeAt(cells, Head(es))
             r == PlaceEdges(h.cells, Tail(es))
         IN  [ objs |-> << h.obj >> \o r.objs, cells |-> r.cells ]

\* Vectors handed to Entity::new: none, (3.0, 4.0) and (NaN).
EntityVectorInputs ==
    { None } \cup { Some(Vector_new(values).val) :
                       values \in { << Num(3000), Num(4000) >>, << NaN >> } }

\* Edge lists handed to Entity::new, by the weights of the edges.
EntityEdgeInputs == { None, Some(<< >>), Some(<< Num(500) >>), Some(<< Num(500), NaN >>) }

\* Entity::new; the first value made.  The clock may tick between the two readings.
NewEntity ==
    /\ objects = << >>
    /\ \E vector \in EntityVectorInputs, metadata \in MetadataInputs,
          weights \in EntityEdgeInputs,
          t2 \in { now } \cup ({ now + 1 } \cap (0..MaxObjectClock)) :
          LET placed == IF weights = None THEN [ objs |-> << >>, cells |-> atomics ]
                        ELSE PlaceEdges(atomics,
                                 [ k \in DOMAIN weights[1] |->
                                     Edge_new(1, 2, "related_to", weights[1][k], None, now) ])
              edges  == IF weights = None THEN None ELSE Some(placed.objs)
          IN  /\ objects' = << Object("entity", "new",
                                      Entity_new(nextId, vector, metadata, edges, now, t2)) >>
              /\ atomics' = placed.cells
              /\ now' = t2
              /\ call' = Called("Entity::new", << vector, metadata, edges >>, "none", Memory)
    /\ nextId' = nextId + 1
    /\ UNCHANGED issued
    /\ ObjectsFrame

\* Entity::demote on an Entity, before any copy of it is taken.
ObjectDemote ==
    /\ Len(objects) = 1
    /\ \E i \in DOMAIN objects :
          /\ objects[i].kind = "entity"
          /\ objects' = [ objects EXCEPT ![i].val = demote(@, now) ]
          /\ call' = Called("demote", i, "none", Memory)
    /\ UNCHANGED <<now, atomics, issued, nextId>>
    /\ ObjectsFrame

-----------------------------------------------------------------------------
(* serde_json encoding and decoding of Edge and Entity *)

JsonNull == [ json |-> "null", v |-> 0 ]
JsonNumber(v) == [ json |-> "number", v |-> v ]
JsonString(v) == [ json |-> "string", v |-> v ]

\* serde_json writes a finite f32 as a number and NaN and the infinities as null.
serialize_f32(x) == IF IsNaN(x) \/ IsInf(x) THEN JsonNull ELSE JsonNumber(x.v)
\* Decoding an f32 accepts a number; null is an error.
Decodes_f32(j) == j.json = "number"
deserialize_f32(j) == Num(j.v)

serialize_atomic_u64(cells, a) == JsonNumber(load(cells, a))
deserialize_atomic_u64(cells, j) == AtomicU64_new(cells, j.v)

Edge_serialize(cells, o) ==
    [ source_id     |-> JsonString(o.source_id),
      target_id     |-> JsonString(o.target_id),
      label         |-> JsonString(o.label),
      weight        |-> serialize_f32(o.weight),
      metadata      |-> o.metadata,
      probability   |-> serialize_f32(o.probability),
      access_count  |-> serialize_atomic_u64(cells, o.access_count),
      last_accessed |-> serialize_atomic_u64(cells, o.last_accessed) ]

Edge_decodes(j) == Decodes_f32(j.weight) /\ Decodes_f32(j.probability)

\* Decoding an Edge: the atomic fields are new cells holding the decoded numbers.
Edge_deserialize(cells, j) ==
    LET c1 == deserialize_atomic_u64(cells, j.access_count)
        c2 == deserialize_atomic_u64(c1, j.last_accessed)
    IN  [ obj   |-> [ source_id     |-> j.source_id.v,
                      target_id     |-> j.target_id.v,
                      label         |-> j.label.v,
                      weight        |-> deserialize_f32(j.weight),
                      metadata      |-> j.metadata,
                      probability   |-> deserialize_f32(j.probability),
                      access_count  |-> Len(c1),
                      last_accessed |-> Len(c2) ],
          cells |-> c2 ]

RECURSIVE DeserializeEdges(_, _)
DeserializeEdges(cells, js) ==
    IF js = << >> THEN [ objs |-> << >>, cells |-> cells ]
    ELSE LET h == Edge_deserialize(cells, Head(js))
             r == DeserializeEdges(h.cells, Tail(js))
         IN  [ objs |-> << h.obj >> \o r.objs, cells |-> r.cells ]

Vector_serialize(v) ==
    [ dimensions |-> JsonNumber(v.dimensions),
      values     |-> [ i \in DOMAIN v.values |-> serialize_f32(v.values[i]) ],
      norm       |-> serialize_f32(v.norm) ]

Vector_decodes(j) ==
    /\ \A i \in DOMAIN j.values : Decodes_f32(j.values[i])
    /\ Decodes_f32(j.norm)

Vector_deserialize(j) ==
    [ dimensions |-> j.dimensions.v,
      values     |-> [ i \in DOMAIN j.values |-> deserialize_f32(j.values[i]) ],
      norm       |-> deserialize_f32(j.norm) ]

\* access_frequency is finite in every entity of the model: a number.
Entity_serialize(cells, e) ==
    [ id                   |-> JsonString(e.id),
      vector               |-> IF e.vector = None THEN None
                               ELSE Some(Vector_serialize(e.vector[1])),
      metadata             |-> e.metadata,
      edges                |-> IF e.edges = None THEN None
                               ELSE Some([ k \in DOMAIN e.edges[1] |->
                                             Edge_serialize(cells, e.edges[1][k]) ]),
      created_at           |-> JsonNumber(e.created_at),
      updated_at           |-> JsonNumber(e.updated_at),
      version              |-> JsonNumber(e.version),
      tier                 |-> JsonString(e.tier),
      polynomial_embedding |-> e.polynomial_embedding,
      access_statistics    |->
          [ total_accesses     |-> JsonNumber(e.access_statistics.total_accesses),
            last_access        |-> JsonNumber(e.access_statistics.last_access),
            access_frequency   |-> JsonNumber(e.access_statistics.access_frequency),
            co_access_entities |-> [ i \in DOMAIN e.access_statistics.co_access_entities |->
                                       JsonString(e.access_statistics.co_access_entities[i]) ] ],
      compression_metadata |-> e.compression_metadata ]

Entity_decodes(j) ==
    /\ j.vector # None => Vector_decodes(j.vector[1])
    /\ j.edges # None => \A k \in DOMAIN j.edges[1] : Edge_decodes(j.edges[1][k])

Entity_deserialize(cells, j) ==
    LET r == IF j.edges = None THEN [ objs |-> << >>, cells |-> cells ]
             ELSE DeserializeEdges(cells, j.edges[1])
    IN  [ obj   |-> [ id                   |-> j.id.v,
                      vector               |-> IF j.vector = None THEN None
                                               ELSE Some(Vector_deserialize(j.vector[1])),
                      metadata             |-> j.metadata,
                      edges                |-> IF j.edges = None THEN None ELSE Some(r.objs),
                      created_at           |-> j.created_at.v,
                      updated_at           |-> j.updated_at.v,
                      version              |-> j.version.v,
                      tier                 |-> j.tier.v,
                      polynomial_embedding |-> j.polynomial_embedding,
                      access_statistics    |->
                          [ total_accesses     |-> j.access_statistics.total_accesses.v,
                            last_access        |-> j.access_statistics.last_access.v,
                            access_frequency   |-> j.access_statistics.access_frequency.v,
                            co_access_entities |->
                                [ i \in DOMAIN j.access_statistics.co_access_entities |->
                                    j.access_statistics.co_access_entities[i].v ] ],
                      compression_metadata |-> j.compression_metadata ],
          cells |-> r.cells ]

\* serde_json::to_string of a value, then serde_json::from_str of the text.
RoundTrip ==
    /\ Len(objects) < MaxObjects
    /\ \E i \in DOMAIN objects :
          LET o  == objects[i]
              j  == IF o.kind = "edge" THEN Edge_serialize(atomics, o.val)
                    ELSE Entity_serialize(atomics, o.val)
              ok == IF o.kind = "edge" THEN Edge_decodes(j) ELSE Entity_decodes(j)
              r  == IF o.kind = "edge" THEN Edge_deserialize(atomics, j)
                    ELSE Entity_deserialize(atomics, j)
          IN  IF ok
              THEN /\ objects' = Append(objects, Object(o.kind, "deserialize", r.obj))
                   /\ atomics' = r.cells
                   /\ call' = Called("round_trip", i, "ok", Memory)
              ELSE /\ UNCHANGED <<objects, atomics>>
                   /\ call' = Called("round_trip", i, "error", Memory)
    /\ UNCHANGED <<now, issued, nextId>>
    /\ ObjectsFrame

-----------------------------------------------------------------------------
(* Specifications *)

TheEdge(weight) == Edge_new(1, 2, "related_to", weight, None, 0)

\* The entity and its statistics, one caller.
Init ==
    /\ InitEntity
    /\ edge = TheEdge(Num(500))
    /\ threads = [ t \in Threads |-> Idle ]
    /\ issued = 0
    /\ objects = << >>
    /\ atomics = << >>
    /\ call = Called("new", 0, "none", TheEntity)

Next ==
    \/ TickEntity
    \/ RecordAccess
    \/ StatsRecordAccess
    \/ SetAccessFrequency
    \/ RecordCoAccessFresh(MaxEntityCoIds)
    \/ RecordCoAccessKnown
    \/ ShouldPromote
    \/ ShouldDemote
    \/ Promote
    \/ Demote

Spec == Init /\ [][Next]_vars

\* The co-access history of one AccessStatistics.
NextCoAccess ==
    \/ RecordCoAccessFresh(MaxFreshIds)
    \/ RecordCoAccessKnown
    \/ RecordCoAccessEvicted

SpecCoAccess == Init /\ [][NextCoAccess]_vars

\* The edge, one caller.
InitEdge ==
    /\ InitEntity
    /\ \E weight \in WeightInputs :
          /\ edge = TheEdge(weight)
          /\ call = Called("new", weight, "none", TheEdge(weight))
    /\ threads = [ t \in Threads |-> Idle ]
    /\ issued = 0
    /\ objects = << >>
    /\ atomics = << >>

NextEdge ==
    \/ TickEdge
    \/ EdgeRecordAccess
    \/ UpdateProbability
    \/ ApplyDecay
    \/ ShouldPrune

SpecEdge == InitEdge /\ [][NextEdge]_vars

\* The statistics and the edge under a clock that may step back.
NextSkew ==
    \/ TickSkew
    \/ SkewStatsRecordAccess
    \/ SkewHoursSinceLastAccess
    \/ EdgeRecordAccess
    \/ SkewApplyDecay
    \/ ShouldPrune

SpecSkew == Init /\ [][NextSkew]_vars

\* One edge learning towards 1.0 at rate 0.1; the caller keeps calling.
InitLearn ==
    /\ InitEntity
    /\ \E weight \in LearnWeightInputs :
          /\ edge = TheEdge(weight)
          /\ call = Called("new", weight, "none", TheEdge(weight))
    /\ threads = [ t \in Threads |-> Idle ]
    /\ issued = 0
    /\ objects = << >>
    /\ atomics = << >>

NextLearn == Learn

SpecLearn == InitLearn /\ [][NextLearn]_vars /\ WF_vars(Learn)

\* The entity and the edge, accessed and polled by one caller.
NextPoll ==
    \/ TickEntity
    \/ RecordAccess
    \/ EdgeRecordAccess
    \/ ShouldPromote
    \/ ShouldDemote
    \/ IsStagnant
    \/ HoursSinceLastAccess
    \/ ShouldPrune

SpecPoll == Init /\ [][NextPoll]_vars

\* The edge, several threads in record_access.
NextConc ==
    \/ TickConc
    \/ \E t \in Threads : Enter(t)
    \/ \E t \in Threads : Step(t)
    \/ GetAccessCount
    \/ GetLastAccessed

SpecConc == Init /\ [][NextConc]_vars

\* Values alive side by side: one original, its clones and decoded copies.
InitObjects ==
    /\ InitEntity
    /\ edge = TheEdge(Num(500))
    /\ threads = [ t \in Threads |-> Idle ]
    /\ issued = 0
    /\ objects = << >>
    /\ atomics = << >>
    /\ call = Called("start", 0, "none", [ objects |-> << >>, atomics |-> << >> ])

NextObjects ==
    \/ TickObjects
    \/ NewEdge
    \/ NewEntity
    \/ ObjectRecordAccess
    \/ ObjectDemote
    \/ CloneObject
    \/ RoundTrip

SpecObjects == InitObjects /\ [][NextObjects]_vars

\* Vectors and the operations on pairs of them.
InitVector ==
    /\ InitEntity
    /\ edge = TheEdge(Num(500))
    /\ threads = [ t \in Threads |-> Idle ]
    /\ issued = 0
    /\ objects = << >>
    /\ atomics = << >>
    /\ call = Called("start", 0, Returned(0), << >>)

NextVector ==
    \/ VectorNew
    \/ VectorZeros
    \/ Dot
    \/ CosineSimilarity
    \/ EuclideanDistance

SpecVector == InitVector /\ [][NextVector]_vars

\* One vector: created, then written to, renormed, normalized and compared
\* with itself.
NormNew == objects = << >> /\ VectorNew

NormZeros == objects = << >> /\ VectorZeros

NextNorm ==
    \/ NormNew
    \/ NormZeros
    \/ SetValue
    \/ UpdateNorm
    \/ Normalize
    \/ CosineSimilarity

SpecNorm == InitVector /\ [][NextNorm]_vars

\* The statistics of one entity over 90 days.
NextStagnant ==
    \/ TickStagnant
    \/ StatsRecordAccess
    \/ IsStagnant

SpecStagnant == Init /\ [][NextStagnant]_vars

-----------------------------------------------------------------------------
(* Properties *)

Stats == entity.access_statistics
Frequency == Stats.access_frequency
History == Stats.co_access_entities

\* C1: one promote() call moves Cold to Warm, Warm to Hot and leaves Hot at
\* Hot; no single call moves an entity from Cold to Hot.
C1_PromoteOneStep ==
    call.op = "promote" =>
        /\ call.pre.tier = "Cold" => entity.tier = "Warm"
        /\ call.pre.tier = "Warm" => entity.tier = "Hot"
        /\ call.pre.tier = "Hot"  => entity.tier = "Hot"
        /\ ~(call.pre.tier = "Cold" /\ entity.tier = "Hot")

C1_Witness == call.op = "promote" /\ call.pre.tier = "Cold" /\ entity.tier = "Warm"

\* C2: one demote() call moves Hot to Warm, Warm to Cold and leaves Cold at
\* Cold; no single call moves an entity from Hot to Cold.
C2_DemoteOneStep ==
    call.op = "demote" =>
        /\ call.pre.tier = "Hot"  => entity.tier = "Warm"
        /\ call.pre.tier = "Warm" => entity.tier = "Cold"
        /\ call.pre.tier = "Cold" => entity.tier = "Cold"
        /\ ~(call.pre.tier = "Hot" /\ entity.tier = "Cold")

C2_Witness == call.op = "demote" /\ call.pre.tier = "Hot" /\ entity.tier = "Warm"

\* What C3 says should_promote() answers for a tier and a frequency.
PromotableByClaim(tier, frequency) ==
    \/ tier = "Cold" /\ frequency >= 10 * FreqUnit
    \/ tier = "Warm" /\ frequency >= 100 * FreqUnit

\* C3: should_promote() is true exactly when the entity is Cold with
\* access_frequency >= 10.0 or Warm with access_frequency >= 100.0, false for
\* every Hot entity, at every clock reading.
C3_ShouldPromoteThresholds ==
    /\ should_promote(entity) <=> PromotableByClaim(entity.tier, Frequency)
    /\ call.op = "should_promote" =>
          call.ret = BoolStr(PromotableByClaim(entity.tier, Frequency))

C3_Witness ==
    /\ call.op = "should_promote"
    /\ entity.tier = "Cold"
    /\ Frequency = 10 * FreqUnit
    /\ now > Stats.last_access
    /\ call.ret = "true"

\* C4: should_demote() is true exactly when the entity is Hot with
\* access_frequency < 1.0 and at least 24 hours have passed since last_access,
\* or Warm with access_frequency < 0.1 and at least 168 hours have passed.
C4_ShouldDemoteExact ==
    call.op = "should_demote" =>
        ( call.ret = "true" <=>
            \/ /\ entity.tier = "Hot"
               /\ Frequency < 1 * FreqUnit
               /\ now - Stats.last_access >= 24 * TicksPerHour
            \/ /\ entity.tier = "Warm"
               /\ Frequency < FreqUnit \div 10
               /\ now - Stats.last_access >= 168 * TicksPerHour )

\* C5: the co-access history holds at most 100 ids and no id twice; a new id
\* recorded while 100 are held evicts the earliest-inserted id, the other 99
\* keep their order and the new id is last.
C5_CoAccessBoundedFifo ==
    /\ Len(History) <= HISTORY_MAX
    /\ \A i, j \in 1..Len(History) : i # j => History[i] # History[j]
    /\ ( /\ call.op = "record_co_access"
         /\ Len(call.pre.access_statistics.co_access_entities) = HISTORY_MAX
         /\ ~Contains(call.pre.access_statistics.co_access_entities, call.arg) )
       => LET before == call.pre.access_statistics.co_access_entities
          IN  /\ Len(History) = HISTORY_MAX
              /\ \A i \in 1..(HISTORY_MAX - 1) : History[i] = before[i + 1]
              /\ History[HISTORY_MAX] = call.arg
              /\ ~Contains(History, before[1])

C5_Witness ==
    /\ call.op = "record_co_access"
    /\ Len(call.pre.access_statistics.co_access_entities) = HISTORY_MAX
    /\ ~Contains(call.pre.access_statistics.co_access_entities, call.arg)
    /\ History[HISTORY_MAX] = call.arg

AllCallsComplete == \A t \in Threads : threads[t].pc = 0

\* C6: after N record_access calls by any threads in any interleaving,
\* access_count is its initial value (0) plus exactly N; while calls are in
\* progress it counts exactly the calls that are past their increment.
C6_NoLostIncrement ==
    /\ AllCallsComplete => edge.access_count = issued
    /\ edge.access_count = issued - Cardinality({ t \in Threads : threads[t].pc = 1 })

\* Two calls overlap (both have incremented, neither has stored its
\* timestamp) and both increments are counted.
C6_Witness ==
    /\ threads[1].pc = 2
    /\ threads[2].pc = 2
    /\ edge.access_count = 2

InUnitInterval(x) == x.k = "num" /\ 0 <= x.v /\ x.v <= One

\* C7: in every state of an Edge made by Edge::new with any weight and mutated
\* by update_probability, apply_decay and record_access with any arguments,
\* weight and probability lie in [0.0, 1.0].
C7_WeightAndProbabilityInUnitInterval ==
    InUnitInterval(edge.weight) /\ InUnitInterval(edge.probability)

\* C8: each Entity::record_access, promote and demote call leaves version
\* strictly greater than it was before the call.
C8_VersionIncrements ==
    call.op \in { "record_access", "promote", "demote" } =>
        entity.version > call.pre.version

\* The exact product inactivity_days * 24 * 60 * 60 * 1000.
DaysInMs(inactivity_days) ==
    MulLimbs(MulLimbs(MulLimbs(MulLimbs(inactivity_days, 24, 0), 60, 0), 60, 0), 1000, 0)

\* C9: should_prune(threshold, inactivity_days) returns true if and only if
\* probability < threshold or now - last_accessed exceeds inactivity_days
\* converted to milliseconds.
C9_ShouldPruneIff ==
    call.op = "should_prune" =>
        ( call.ret = "true" <=>
            \/ FLt(edge.probability, call.arg[1])
            \/ LimbsGt(elapsed_ms(edge, now), DaysInMs(call.arg[2])) )

\* C10: Entity::record_access, record_co_access and the polling operations
\* should_promote and should_demote leave tier unchanged.
C10_TierOnlyByPromoteDemote ==
    call.op \in { "record_access", "record_co_access", "should_promote", "should_demote" }
        => entity.tier = call.pre.tier

\* A record_access that takes the frequency over the promotion threshold.
C10_Witness ==
    /\ call.op = "record_access"
    /\ ~should_promote(call.pre)
    /\ should_promote(entity)
    /\ entity.tier = call.pre.tier

C12_ZeroElapsedKeepsFrequency ==
    ( /\ call.op \in { "record_access", "stats_record_access" }
      /\ call.arg = call.pre.access_statistics.last_access )
    => /\ Frequency = call.pre.access_statistics.access_frequency
       /\ Stats.total_accesses = call.pre.access_statistics.total_accesses + 1

\* A second access in the same millisecond as the first, on statistics whose
\* frequency is 100.0.
C12_Witness ==
    /\ call.op = "record_access"
    /\ call.arg = call.pre.access_statistics.last_access
    /\ call.pre.access_statistics.total_accesses = 1
    /\ call.pre.access_statistics.access_frequency = 100 * FreqUnit
    /\ Frequency = 100 * FreqUnit
    /\ Stats.total_accesses = 2

\* The access_count and last_accessed of every edge an object holds.
Counters(cells, object) ==
    [ k \in DOMAIN EdgesOf(object) |->
        << load(cells, EdgesOf(object)[k].access_count),
           load(cells, EdgesOf(object)[k].last_accessed) >> ]

\* C13: a clone of an Edge, or of an Entity holding edges, carries the
\* access_count and last_accessed the original had when it was cloned, and
\* an Edge::record_access on one value changes the access_count and
\* last_accessed of no other value, clone or original.
C13_CloneIndependent ==
    /\ call.op = "clone" =>
          /\ Counters(atomics, objects[Len(objects)])
                = Counters(call.pre.atomics, call.pre.objects[call.arg])
          /\ Counters(atomics, objects[call.arg])
                = Counters(call.pre.atomics, call.pre.objects[call.arg])
    /\ call.op = "edge_record_access" =>
          \A j \in DOMAIN objects :
              j # call.arg[1] =>
                  Counters(atomics, objects[j]) = Counters(call.pre.atomics, objects[j])

\* An edge accessed once, then cloned, then accessed again: the clone still
\* holds the count and the timestamp of the moment it was made.
C13_Witness ==
    /\ call.op = "edge_record_access"
    /\ call.arg[1] = 1
    /\ Len(objects) = 2
    /\ objects[2].origin = "clone"
    /\ Counters(atomics, objects[1])[1] = << 2, 1 >>
    /\ Counters(atomics, objects[2])[1] = << 1, 0 >>

\* C14: encoding then decoding an Edge, after any number of record_access
\* calls, succeeds and yields an edge with the same source_id, target_id,
\* label, probability and access_count; doing the same to an Entity yields an
\* entity with the same id, tier and version.
C14_RoundTripPreserves ==
    call.op = "round_trip" =>
        /\ call.ret = "ok"
        /\ LET a == objects[call.arg].val
               b == objects[Len(objects)].val
           IN  IF objects[call.arg].kind = "edge"
               THEN /\ b.source_id = a.source_id
                    /\ b.target_id = a.target_id
                    /\ b.label = a.label
                    /\ FEq(b.probability, a.probability)
                    /\ load(atomics, b.access_count) = load(atomics, a.access_count)
               ELSE /\ b.id = a.id
                    /\ b.tier = a.tier
                    /\ b.version = a.version

\* The calls C15 is about: Vector::new of an empty sequence, dot and
\* euclidean_distance of two vectors of different dimensions.
RejectedVectorCall ==
    \/ call.op = "Vector::new" /\ call.arg = << >>
    \/ /\ call.op \in { "dot", "euclidean_distance" }
       /\ objects[call.arg[1]].val.dimensions # objects[call.arg[2]].val.dimensions

\* C15: Vector::new of an empty sequence, and dot and euclidean_distance of
\* two vectors of different dimensions, return the InvariantViolation error
\* to the caller and produce no Vector and no number.
C15_InvariantViolationSignalled ==
    RejectedVectorCall =>
        /\ call.ret.outcome = "InvariantViolation"
        /\ objects = call.pre

\* C16: cosine_similarity of two vectors of which either has a cached norm
\* of 0.0 returns exactly 0.0 and does not panic, whatever the other vector is.
C16_ZeroNormCosineIsZero ==
    ( /\ call.op = "cosine_similarity"
      /\ \/ FEq(objects[call.arg[1]].val.norm, Num(0))
         \/ FEq(objects[call.arg[2]].val.norm, Num(0)) )
    => call.ret = Returned(Num(0))

\* A vector of norm 0.0 against a vector of another dimension that holds NaN.
C16_Witness ==
    /\ call.op = "cosine_similarity"
    /\ objects[call.arg[1]].val.norm = Num(0)
    /\ objects[call.arg[1]].val.dimensions = 2
    /\ objects[call.arg[2]].val.values = << NaN >>
    /\ call.ret = Returned(Num(0))

\* C17: every Entity returned by Entity::new has tier Hot, version 1,
\* total_accesses 0, access_frequency 0.0, an empty co-access history and
\* created_at equal to updated_at, whatever vector, metadata and edges it is given.
C17_EntityNewDefaults ==
    call.op = "Entity::new" =>
        LET e == objects[1].val
        IN  /\ e.tier = "Hot"
            /\ e.version = 1
            /\ e.access_statistics.total_accesses = 0
            /\ e.access_statistics.access_frequency = 0
            /\ e.access_statistics.co_access_entities = << >>
            /\ e.created_at = e.updated_at

\* An entity made with a vector, metadata and two edges while the clock ticks
\* between the reading of Entity::new and that of AccessStatistics::new.
C17_Witness ==
    /\ call.op = "Entity::new"
    /\ objects[1].val.vector # None
    /\ objects[1].val.metadata # None
    /\ objects[1].val.edges # None
    /\ Len(EdgesOf(objects[1])) = 2
    /\ objects[1].val.access_statistics.last_access > objects[1].val.created_at

\* C18: every Edge returned by Edge::new has probability equal to its stored
\* weight, access_count 0, last_accessed equal to the clock reading at
\* creation, and the source_id, target_id and label it was given.
C18_EdgeNewDefaults ==
    call.op = "Edge::new" =>
        LET e == Loaded(atomics, objects[1].val)
        IN  /\ FEq(e.probability, e.weight)
            /\ e.access_count = 0
            /\ e.last_accessed = now
            /\ e.source_id = call.arg[1]
            /\ e.target_id = call.arg[2]
            /\ e.label = call.arg[3]

\* C19: is_stagnant() is true if and only if at least 2160 hours (90 days)
\* have passed since last_access.
C19_StagnantIff ==
    call.op = "is_stagnant" =>
        ( call.ret = "true" <=> now - Stats.last_access >= 2160 * TicksPerHour )

\* C20: promote() on a Hot entity and demote() on a Cold entity leave every
\* field of the entity, updated_at and version included, unchanged.
C20_SelfLoopsChangeNothing ==
    /\ (call.op = "promote" /\ call.pre.tier = "Hot") => entity = call.pre
    /\ (call.op = "demote" /\ call.pre.tier = "Cold") => entity = call.pre

\* C21: record_co_access with an id already in the history leaves
\* co_access_entities as it was: same length, same ids, same order; the id
\* keeps the position of its first insertion.
C21_KnownIdLeavesHistory ==
    ( /\ call.op = "record_co_access"
      /\ Contains(call.pre.access_statistics.co_access_entities, call.arg) )
    => History = call.pre.access_statistics.co_access_entities

\* The oldest id of a full history is recorded again and stays the oldest.
C21_Witness ==
    /\ call.op = "record_co_access"
    /\ Len(call.pre.access_statistics.co_access_entities) = HISTORY_MAX
    /\ call.pre.access_statistics.co_access_entities[1] = call.arg
    /\ History[1] = call.arg
    /\ Len(History) = HISTORY_MAX

\* C22: update_probability clamps target and learning_rate to [0, 1], then
\* stores and returns clamp(p + learning_rate * (target - p), 0, 1); a rate of
\* 0 leaves p unchanged and a rate of 1 sets p to the clamped target.
C22_UpdateProbabilityFormula ==
    call.op = "update_probability" =>
        LET p     == call.pre.probability
            tc    == clamp(call.arg[1], Num(0), Num(One))
            lc    == clamp(call.arg[2], Num(0), Num(One))
            value == clamp(FAdd(p, FMul(lc, FSub(tc, p))), Num(0), Num(One))
        IN  /\ InUnitInterval(tc)
            /\ InUnitInterval(lc)
            /\ edge.probability = value
            /\ call.ret = value
            /\ lc = Num(0) => FEq(edge.probability, p)
            /\ lc = Num(One) => FEq(edge.probability, tc)

\* The distance of a probability to the target 1.0, in thousandths.
Distance(e) == One - e.probability.v

\* The step 0.1 * (1.0 - p) is below the resolution of the stored value.
StepVanishes(e) == (100 * Distance(e)) \div One = 0

\* The probability rests short of the target.
AtRest == StepVanishes(edge) /\ Distance(edge) > 0

C24_EdgeFrames ==
    /\ call.op \in { "apply_decay", "update_probability" } =>
          [ edge EXCEPT !.probability = call.pre.probability ] = call.pre
    /\ call.op = "record_access" =>
          [ edge EXCEPT !.access_count  = call.pre.access_count,
                        !.last_accessed = call.pre.last_accessed ] = call.pre

\* An edge accessed before is decayed a day later: the probability drops.
C24_Witness ==
    /\ call.op = "apply_decay"
    /\ edge.probability # call.pre.probability
    /\ edge.access_count > 0
    /\ now > edge.last_accessed

C29_LastAccessedNeverDecreases ==
    [][ edge'.last_accessed >= edge.last_accessed ]_vars

PollingOps ==
    { "should_promote", "should_demote", "should_prune", "is_stagnant",
      "hours_since_last_access" }

\* C26: should_promote, should_demote, should_prune, is_stagnant and
\* hours_since_last_access leave every field of the entity, its statistics
\* and the edge unchanged, and the same call repeated at the same clock
\* reading returns the same answer (a call that panics, which depends on the
\* build alone, gives none).
C26_PollingIsPure ==
    [][ call'.op \in PollingOps =>
          /\ entity' = entity
          /\ edge' = edge
          /\ now' = now
          /\ (call.op = call'.op /\ call.arg = call'.arg) =>
                \/ call'.ret = call.ret
                \/ "panic" \in { call.ret, call'.ret } ]_vars

\* should_demote has answered true about a Hot entity accessed once, a day
\* before; the entity is still Hot and the edge still counts its one access.
C26_Witness ==
    /\ call.op = "should_demote"
    /\ call.ret = "true"
    /\ entity = call.pre
    /\ entity.tier = "Hot"
    /\ entity.access_statistics.total_accesses = 1
    /\ edge.access_count = 1

\* C28: in no reachable entity state are should_promote() and
\* should_demote() both true, whatever the tier, the access_frequency and
\* the elapsed time.
C28_NeverPromoteAndDemote ==
    ~( should_promote(entity) /\ should_demote(entity, now) )

\* A Warm entity left alone for 168 hours whose access_frequency says
\* promote: the elapsed time alone would say demote.
C28_Witness ==
    /\ entity.tier = "Warm"
    /\ should_promote(entity)
    /\ ~should_demote(entity, now)
    /\ now - Stats.last_access >= 168 * TicksPerHour

\* C30: after Entity::record_access, should_demote() is false until 24 hours
\* (Hot) or 168 hours (Warm) have passed since that record_access.
C30_NotDemotableEarly ==
    ( Stats.total_accesses > 0 /\ should_demote(entity, now) ) =>
        /\ entity.tier = "Hot"  => now - Stats.last_access >= 24 * TicksPerHour
        /\ entity.tier = "Warm" => now - Stats.last_access >= 168 * TicksPerHour

\* The cached norm of a vector is the L2 norm of its values.
NormIsCurrent(v) == v.norm = compute_norm(v.values)

\* C27: the cached norm is the L2 norm of the current values after
\* Vector::new, zeros and update_norm, and after normalize of a vector whose
\* norm was current; a direct write to values leaves norm as it was, and
\* cosine_similarity and normalize go by the cached norm.
C27_NormMatchesValues ==
    /\ (call.op \in { "Vector::new", "Vector::zeros" } /\ Len(objects) > Len(call.pre)) =>
          NormIsCurrent(objects[Len(objects)].val)
    /\ call.op = "update_norm" => NormIsCurrent(objects[call.arg].val)
    /\ call.op = "set_value" =>
          objects[call.arg[1]].val.norm = call.pre[call.arg[1]].val.norm
    /\ (call.op = "normalize" /\ NormIsCurrent(call.pre[call.arg].val)) =>
          NormIsCurrent(objects[call.arg].val)

\* C32: should_prune computes inactivity_days * 86,400,000 without 64-bit
\* overflow for every u64 inactivity_days, so the inactivity test is monotone:
\* an edge that is not prunable with d days is not prunable with any d' > d.
C32_InactivityWindowMonotone ==
    call.op = "should_prune" =>
        /\ ~inactivity_ms(call.arg[2]).overflow
        /\ \A d \in InactivityDaysInputs :
              ( /\ LimbsGt(call.arg[2], d)
                /\ should_prune(edge, call.arg[1], d, now) = { "false" } )
              => call.ret = "false"

\* The stored timestamp is later than the clock reading.
Ahead(stored) == U64Sub(MsOf(now), MsOf(stored)).overflow

\* C31: whatever the stored timestamp, should_prune, apply_decay,
\* AccessStatistics::record_access and hours_since_last_access compute
\* now - stored without underflow: none of them panics and none goes on with
\* a wrapped difference.
C31_ElapsedNeverUnderflows ==
    /\ call.op = "stats_record_access" =>
          call.ret = "ok" /\ ~Ahead(call.pre.access_statistics.last_access)
    /\ call.op = "hours_since_last_access" =>
          call.ret.outcome = "ok" /\ ~Ahead(call.pre.access_statistics.last_access)
    /\ call.op = "apply_decay" =>
          call.ret = "ok" /\ ~Ahead(call.pre.last_accessed)
    /\ (call.op = "should_prune" /\ ~FLt(call.pre.probability, call.arg[1])
          /\ ~inactivity_ms(call.arg[2]).overflow) =>
          call.ret # "panic" /\ ~Ahead(call.pre.last_accessed)

====
